---- MODULE Spec2Model ----
(***************************************************************************)
(* A model of blend.py (Panorama-Stitcher): blendImages and the functions  *)
(* it calls, getAccSize, imageBoundingBox, pasteImages, accumulateBlend,   *)
(* bilinear_interpolation, normalizeBlend and getDriftParams.              *)
(*                                                                         *)
(* Numbers.  The code computes in floating point.  The model computes the  *)
(* same quantities exactly, as integers over fixed denominators:           *)
(*   - a coordinate is an integer number of 1/SubPix pixels;               *)
(*   - a weight sum is an integer number of 1/blendWidth;                  *)
(*   - a colour sum is an integer number of                                *)
(*     1/(SubPix*SubPix*255*blendWidth).                                   *)
(* Placement transforms are the pure translations by a multiple of         *)
(* 1/SubPix pixel, images have one colour channel and all the same shape.  *)
(***************************************************************************)
EXTENDS Integers, Sequences, FiniteSets, TLC

\* ------------------------------------------------------------------ bounds
MaxImgs == 2
ImgW == 2
ImgH == 2
MaxBlend == 2
MaxShift == 2
SubPix == 2

\* ------------------------------------------------------- program constants
\* sys.maxsize, the starting value of minX and minY.  The program's value is
\* 2^63 - 1; the model uses the largest integer TLC has, which is likewise
\* larger than every coordinate.
sys_maxsize == 2147483647
\* the 8-bit range: img / 255.0 and img * 255
U8 == 255
\* 1 / 1e-8, the floor of the weight in normalizeBlend
EpsInv == 100000000

VARIABLES ipv, blendWidth, is360, A_out, pc, exc, accWidth, accHeight,
          channels, width, translation, acc, count, compImage, drift,
          outputWidth, A, croppedImage

vars == <<ipv, blendWidth, is360, A_out, pc, exc, accWidth, accHeight,
          channels, width, translation, acc, count, compImage, drift,
          outputWidth, A, croppedImage>>

\* ----------------------------------------------------------------- helpers
Min2(a, b) == IF a <= b THEN a ELSE b

Max2(a, b) == IF a >= b THEN a ELSE b

\* int(v) of a float v = n / SubPix: truncation toward zero
Trunc(n) == IF n >= 0 THEN n \div SubPix ELSE -((-n) \div SubPix)

\* ------------------------------------------------------------------ inputs
\* img[y, x] of an image of the given kind, an 8-bit value
Pixel(kind, x, y) ==
    IF kind = "white" THEN U8 ELSE (85 * (x + 1) + 170 * y) % (U8 + 1)

\* the translations, in 1/SubPix pixels: every horizontal shift within
\* MaxShift, and vertically none or a fractional shift that puts the whole
\* image above the origin
ShiftsX == (-MaxShift)..MaxShift

ShiftsY == {0, -(SubPix * ImgH + 1)}

\* a ramp image at every placement, a white image at the origin and at a
\* fraction of a pixel to its right
ImageInfo ==
    [img : {"ramp"}, position : ShiftsX \X ShiftsY]
        \cup [img : {"white"}, position : {<<0, 0>>, <<1, 0>>}]

RECURSIVE SeqsUpTo(_, _)
SeqsUpTo(S, n) ==
    IF n = 0 THEN {<<>>}
    ELSE LET shorter == SeqsUpTo(S, n - 1)
         IN  shorter \cup {Append(s, e) : s \in {t \in shorter : Len(t) = n - 1}, e \in S}

\* ------------------------------------------------------- imageBoundingBox
ImageBoundingBox(M) ==
    LET xs == {0 + M[1], (ImgW - 1) * SubPix + M[1]}
        ys == {0 + M[2], (ImgH - 1) * SubPix + M[2]}
        lo(S) == CHOOSE v \in S : \A u \in S : v <= u
        hi(S) == CHOOSE v \in S : \A u \in S : v >= u
    IN  [minX |-> Trunc(lo(xs)), minY |-> Trunc(lo(ys)),
         maxX |-> Trunc(hi(xs)), maxY |-> Trunc(hi(ys))]

\* ------------------------------------------------------------- getAccSize
InitialBox == [minX |-> sys_maxsize, minY |-> sys_maxsize, maxX |-> 0, maxY |-> 0]

FoldBox(box, new) ==
    [minX |-> Min2(box.minX, new.minX), minY |-> Min2(box.minY, new.minY),
     maxX |-> Max2(box.maxX, new.maxX), maxY |-> Max2(box.maxY, new.maxY)]

RECURSIVE MosaicBox(_, _)
MosaicBox(s, n) ==
    IF n = 0 THEN InitialBox
    ELSE FoldBox(MosaicBox(s, n - 1), ImageBoundingBox(s[n].position))

getAccSize(s) ==
    LET box == MosaicBox(s, Len(s))
    IN  [accWidth    |-> box.maxX - box.minX,
         accHeight   |-> box.maxY - box.minY,
         channels    |-> IF Len(s) = 0 THEN -1 ELSE 1,
         width       |-> IF Len(s) = 0 THEN -1 ELSE ImgW,
         translation |-> <<-box.minX, -box.minY>>]

\* ------------------------------------------------- bilinear_interpolation
\* numpy's index check on an axis of length n: i in [-n, n) is accepted,
\* a negative i counting from the end; anything else raises IndexError
IndexOk(i, n) == i >= -n /\ i < n

Wrap(i, n) == IF i < 0 THEN i + n ELSE i

\* the four lattice neighbours <<column, row>> the sampler reads
Neighbours(x, y) ==
    LET x_0 == Trunc(x)
        y_0 == Trunc(y)
    IN  {<<x_0, y_0>>, <<x_0 + 1, y_0>>, <<x_0, y_0 + 1>>, <<x_0 + 1, y_0 + 1>>}

BilinearRaises(x, y) ==
    \E n \in Neighbours(x, y) : ~IndexOk(n[1], ImgW) \/ ~IndexOk(n[2], ImgH)

\* the interpolated value of img / 255.0, in units of 1/(SubPix*SubPix*U8)
bilinear_interpolation(img, x, y) ==
    LET x_0 == Trunc(x)
        y_0 == Trunc(y)
        x_1 == x_0 + 1
        y_1 == y_0 + 1
        dx  == x - SubPix * x_0
        dy  == y - SubPix * y_0
        at(c, r) == Pixel(img, Wrap(c, ImgW), Wrap(r, ImgH))
    IN    at(x_0, y_0) * (SubPix - dx) * (SubPix - dy)
        + at(x_1, y_0) * dx * (SubPix - dy)
        + at(x_0, y_1) * (SubPix - dx) * dy
        + at(x_1, y_1) * dx * dy

\* --------------------------------------------------------- accumulateBlend
\* translation.dot(M) for a translation (whole pixels) and a placement M
M_trans(t, M) == <<SubPix * t[1] + M[1], SubPix * t[2] + M[2]>>

\* np.dot(inverse_M, [x, y, 1]) dehomogenized: the source coordinate
InputCoords(Mt, x, y) == <<SubPix * x - Mt[1], SubPix * y - Mt[2]>>

\* a bounds test without the margin for the right and lower neighbours
SkipsNoMargin(input_x, input_y) ==
    \/ input_x < 0
    \/ input_x > (ImgW - 1) * SubPix
    \/ input_y < 0
    \/ input_y > (ImgH - 1) * SubPix

\* the test that makes the loop `continue`
Skips(input_x, input_y) ==
    \/ input_x < 0
    \/ input_x >= (ImgW - 1) * SubPix
    \/ input_y < 0
    \/ input_y >= (ImgH - 1) * SubPix

\* min(x, blendWidth, W - x), the weight at column x in units of 1/blendWidth
Weight(x, b, W) == Min2(Min2(x, b), W - x)

ZeroCell == [col |-> 0, w |-> 0]

\* a buffer update that assigns instead of adding
AddToOverwrite(cell, pixel_value, weight) ==
    [col |-> pixel_value * weight, w |-> weight]

\* a buffer update that assigns the weight channel instead of adding to it
AddToWeightAssigned(cell, pixel_value, weight) ==
    [col |-> cell.col + pixel_value * weight, w |-> weight]

\* acc[y, x, :3] += pixel_value * weight ; acc[y, x, 3] += weight
AddTo(cell, pixel_value, weight) ==
    [col |-> cell.col + pixel_value * weight, w |-> cell.w + weight]

AccumulateCell(img, cell, Mt, b, W, x, y) ==
    LET in == InputCoords(Mt, x, y)
    IN  IF Skips(in[1], in[2]) THEN cell
        ELSE AddTo(cell, bilinear_interpolation(img, in[1], in[2]), Weight(x, b, W))

accumulateBlend(img, a, H, W, Mt, b) ==
    [y \in 0..(H - 1) |-> [x \in 0..(W - 1) |->
        AccumulateCell(img, a[y][x], Mt, b, W, x, y)]]

\* np.zeros((accHeight, accWidth, channels + 1))
Zeros(H, W) == [y \in 0..(H - 1) |-> [x \in 0..(W - 1) |-> ZeroCell]]

\* pasteImages: the buffer after the first n images of s, in the order of s
RECURSIVE pasteImages(_, _, _, _, _, _)
pasteImages(s, n, t, b, W, H) ==
    IF n = 0 THEN Zeros(H, W)
    ELSE accumulateBlend(s[n].img, pasteImages(s, n - 1, t, b, W, H), H, W,
                         M_trans(t, s[n].position), b)

\* whether the call ends in an IndexError raised by the sampler
AccumulateRaises(H, W, Mt) ==
    \E y \in 0..(H - 1), x \in 0..(W - 1) :
        LET in == InputCoords(Mt, x, y)
        IN  ~Skips(in[1], in[2]) /\ BilinearRaises(in[1], in[2])

\* ---------------------------------------------------------- normalizeBlend
\* a rescaling by 256 instead of 255
NormalizeValue256(col, w, b) ==
    IF w * EpsInv >= b
    THEN ((U8 + 1) * col) \div (SubPix * SubPix * U8 * w)
    ELSE ((U8 + 1) * col * EpsInv) \div (SubPix * SubPix * U8 * b)

\* acc colour / max(acc weight, 1e-8) * 255, truncated
NormalizeValue(col, w, b) ==
    IF w * EpsInv >= b
    THEN (U8 * col) \div (SubPix * SubPix * U8 * w)
    ELSE (U8 * col * EpsInv) \div (SubPix * SubPix * U8 * b)

\* astype(np.uint8)
AsUint8(v) == v % (U8 + 1)

normalizeBlend(a, H, W, b) ==
    [y \in 0..(H - 1) |-> [x \in 0..(W - 1) |->
        [col |-> AsUint8(NormalizeValue(a[y][x].col, a[y][x].w, b)),
         alpha |-> AsUint8(1 * U8)]]]

\* ---------------------------------------------------------- getDriftParams
\* M_trans.dot([0.5 * width, 0, 1]) dehomogenized, in units of 1/(2*SubPix)
\* pixel; taken at the first image (x_init, y_init) and at the last
\* (x_final, y_final)
DriftPoint(t, M, w) ==
    LET Mt == M_trans(t, M) IN <<SubPix * w + 2 * Mt[1], 2 * Mt[2]>>

getDriftParams(s, t, w) ==
    [x_init  |-> DriftPoint(t, s[1].position, w)[1],
     y_init  |-> DriftPoint(t, s[1].position, w)[2],
     x_final |-> DriftPoint(t, s[Len(s)].position, w)[1],
     y_final |-> DriftPoint(t, s[Len(s)].position, w)[2]]

\* ------------------------------------------------------------------- Init
None == "None"

Init ==
    /\ ipv \in SeqsUpTo(ImageInfo, MaxImgs)
    /\ blendWidth \in 1..MaxBlend
    /\ is360 \in BOOLEAN
    /\ A_out \in {None, "caller"}
    /\ pc = "getAccSize"
    /\ exc = None
    /\ accWidth = None /\ accHeight = None /\ channels = None
    /\ width = None /\ translation = None
    /\ acc = None
    /\ count = 0
    /\ compImage = None
    /\ drift = None
    /\ outputWidth = None
    /\ A = None
    /\ croppedImage = None

\* ---------------------------------------------------------------- actions
\* blendImages, line 224
GetAccSize ==
    /\ pc = "getAccSize"
    /\ LET r == getAccSize(ipv)
       IN  /\ accWidth' = r.accWidth
           /\ accHeight' = r.accHeight
           /\ channels' = r.channels
           /\ width' = r.width
           /\ translation' = r.translation
    /\ pc' = "pasteImages"
    /\ UNCHANGED <<ipv, blendWidth, is360, A_out, exc, acc, count, compImage,
                   drift, outputWidth, A, croppedImage>>

\* pasteImages, line 168: np.zeros raises ValueError on a negative dimension
PasteImagesAlloc ==
    /\ pc = "pasteImages"
    /\ IF accHeight < 0 \/ accWidth < 0 \/ channels + 1 < 0
       THEN /\ exc' = "ValueError"
            /\ pc' = "raised"
            /\ acc' = acc
       ELSE /\ acc' = Zeros(accHeight, accWidth)
            /\ pc' = IF Len(ipv) = 0 THEN "normalizeBlend" ELSE "accumulateBlend"
            /\ exc' = exc
    /\ UNCHANGED <<ipv, blendWidth, is360, A_out, accWidth, accHeight, channels,
                   width, translation, count, compImage, drift, outputWidth, A,
                   croppedImage>>

\* pasteImages, lines 171-176: one turn of the loop, one call of accumulateBlend
AccumulateBlend ==
    /\ pc = "accumulateBlend"
    /\ count < Len(ipv)
    /\ LET i  == ipv[count + 1]
           Mt == M_trans(translation, i.position)
       IN  IF AccumulateRaises(accHeight, accWidth, Mt)
           THEN /\ exc' = "IndexError"
                /\ pc' = "raised"
                /\ UNCHANGED <<acc, count>>
           ELSE /\ acc' = accumulateBlend(i.img, acc, accHeight, accWidth, Mt, blendWidth)
                /\ count' = count + 1
                /\ pc' = IF count + 1 = Len(ipv) THEN "normalizeBlend" ELSE "accumulateBlend"
                /\ exc' = exc
    /\ UNCHANGED <<ipv, blendWidth, is360, A_out, accWidth, accHeight, channels,
                   width, translation, compImage, drift, outputWidth, A,
                   croppedImage>>

\* blendImages, line 228: normalizeBlend works on a copy of acc
NormalizeBlend ==
    /\ pc = "normalizeBlend"
    /\ compImage' = normalizeBlend(acc, accHeight, accWidth, blendWidth)
    /\ pc' = "getDriftParams"
    /\ UNCHANGED <<ipv, blendWidth, is360, A_out, exc, accWidth, accHeight,
                   channels, width, translation, acc, count, drift,
                   outputWidth, A, croppedImage>>

\* blendImages, lines 231-234
GetDriftParams ==
    /\ pc = "getDriftParams"
    /\ outputWidth' = IF is360 THEN accWidth - width ELSE accWidth
    /\ IF Len(ipv) = 0
       THEN /\ exc' = "UnboundLocalError"
            /\ pc' = "raised"
            /\ UNCHANGED <<drift, A>>
       ELSE /\ drift' = getDriftParams(ipv, translation, width)
            /\ A' = "identity"
            /\ pc' = "correct"
            /\ exc' = exc
    /\ UNCHANGED <<ipv, blendWidth, is360, A_out, accWidth, accHeight, channels,
                   width, translation, acc, count, compImage, croppedImage>>

\* a 360 mode that raises after the caller's slot is written
Raise360AfterWrite ==
    /\ pc = "correct"
    /\ is360
    /\ A_out' = IF A_out = None THEN None ELSE A
    /\ exc' = "TODO 12 in blend.py not implemented"
    /\ pc' = "raised"
    /\ UNCHANGED <<ipv, blendWidth, is360, accWidth, accHeight, channels,
                   width, translation, acc, count, compImage, drift,
                   outputWidth, A, croppedImage>>

\* blendImages, lines 235-246: 360 mode raises before anything else happens
Raise360 ==
    /\ pc = "correct"
    /\ is360
    /\ exc' = "TODO 12 in blend.py not implemented"
    /\ pc' = "raised"
    /\ UNCHANGED <<ipv, blendWidth, is360, A_out, accWidth, accHeight, channels,
                   width, translation, acc, count, compImage, drift,
                   outputWidth, A, croppedImage>>

\* blendImages, lines 248-256: A_out[:] = A, then the warp by A = identity,
\* which copies compImage; cv2.warpPerspective rejects an empty image
WarpAndReturn ==
    /\ pc = "correct"
    /\ ~is360
    /\ A_out' = IF A_out = None THEN None ELSE A
    /\ IF outputWidth <= 0 \/ accHeight <= 0
       THEN /\ exc' = "cv2.error"
            /\ pc' = "raised"
            /\ croppedImage' = croppedImage
       ELSE /\ croppedImage' = [y \in 0..(accHeight - 1) |-> [x \in 0..(outputWidth - 1) |->
                                   compImage[y][x]]]
            /\ pc' = "returned"
            /\ exc' = exc
    /\ UNCHANGED <<ipv, blendWidth, is360, accWidth, accHeight, channels,
                   width, translation, acc, count, compImage, drift,
                   outputWidth, A>>

Next ==
    \/ GetAccSize
    \/ PasteImagesAlloc
    \/ AccumulateBlend
    \/ NormalizeBlend
    \/ GetDriftParams
    \/ Raise360
    \/ WarpAndReturn

Spec == Init /\ [][Next]_vars

\* =================================================================== claims
\* the geometry is known: getAccSize has returned
Sized == pc # "getAccSize"

Rows == 0..(accHeight - 1)

Cols == 0..(accWidth - 1)

Identity == <<0, 0>>

\* the source coordinate of canvas pixel (x, y) for the image at index i
Src(i, x, y) == InputCoords(M_trans(translation, ipv[i].position), x, y)

\* C1: a single image placed by the identity comes back unchanged in non-360
\* mode: the mosaic has the image's width and height, every pixel equals the
\* input pixel up to 8-bit rounding, and every canvas pixel has weight 1.
C1_SingleImageUnchanged ==
    (pc = "returned" /\ Len(ipv) = 1 /\ ipv[1].position = Identity) =>
        /\ DOMAIN croppedImage = 0..(ImgH - 1)
        /\ \A y \in 0..(ImgH - 1) :
            /\ DOMAIN croppedImage[y] = 0..(ImgW - 1)
            /\ \A x \in 0..(ImgW - 1) :
                /\ croppedImage[y][x].col - Pixel(ipv[1].img, x, y) \in {-1, 0, 1}
                /\ acc[y][x].w = blendWidth

\* C2: the weight accumulateBlend adds at column x equals the weight it adds
\* at the mirrored column W-1-x, for every column of the canvas.
C2_WeightSymmetric ==
    pc = "accumulateBlend" =>
        \A x \in Cols :
            Weight(x, blendWidth, accWidth) = Weight(accWidth - 1 - x, blendWidth, accWidth)

\* C3: image A at the identity and image B a whole d pixels to its right,
\* 0 < d < W, give a canvas of width W + d and height H.
C3_TwoImageCanvas ==
    (Sized /\ Len(ipv) = 2 /\ ipv[1].position = Identity) =>
        \A d \in 1..(ImgW - 1) :
            ipv[2].position = <<SubPix * d, 0>> =>
                accWidth = ImgW + d /\ accHeight = ImgH

\* C4: with no image, getAccSize signals an error instead of returning a
\* geometry, so control never reaches the allocation of the buffer.
C4_EmptyInputRejected ==
    Len(ipv) = 0 => pc \in {"getAccSize", "raised"} /\ exc # "ValueError"

\* the largest and the smallest of a set of integers
MaxOf(S) == CHOOSE v \in S : \A u \in S : v >= u

MinOf(S) == CHOOSE v \in S : \A u \in S : v <= u

Boxes == {ImageBoundingBox(ipv[i].position) : i \in 1..Len(ipv)}

\* C8: for a non-empty sequence the canvas is the minimal box around the
\* images' bounding boxes: width = largest maxX - smallest minX, height =
\* largest maxY - smallest minY, translation = (-minX, -minY).
C8_MinimalEnclosingBox ==
    (Sized /\ Len(ipv) > 0) =>
        /\ accWidth = MaxOf({b.maxX : b \in Boxes}) - MinOf({b.minX : b \in Boxes})
        /\ accHeight = MaxOf({b.maxY : b \in Boxes}) - MinOf({b.minY : b \in Boxes})
        /\ translation = <<-MinOf({b.minX : b \in Boxes}), -MinOf({b.minY : b \in Boxes})>>

NotImplemented == "TODO 12 in blend.py not implemented"

\* C5: for a non-empty sequence, 360 mode ends only in the not-implemented
\* failure, returns no mosaic and leaves the caller's A_out as it was; the
\* other mode never raises that failure, uses A = identity and has written
\* identity into a supplied A_out when it ends.
C5_Mode360 ==
    Len(ipv) > 0 =>
        /\ is360 =>
            /\ pc # "returned"
            /\ croppedImage = None
            /\ A_out \in {None, "caller"}
            /\ exc \in {None, NotImplemented}
            /\ pc = "raised" => exc = NotImplemented
        /\ ~is360 =>
            /\ exc # NotImplemented
            /\ pc \in {"returned", "raised"} =>
                /\ A = "identity"
                /\ A_out \in {None, "identity"}

C5_Witness ==
    /\ pc = "raised" /\ is360 /\ exc = NotImplemented
    /\ Len(ipv) = 2 /\ A_out = "caller"

\* the permutations of 1..n
Perms(n) == {p \in [1..n -> 1..n] : \A i, j \in 1..n : p[i] = p[j] => i = j}

Permuted(s, p) == [i \in 1..Len(s) |-> s[p[i]]]

\* the images that contribute to canvas pixel (x, y)
Covering(x, y) == {i \in 1..Len(ipv) : ~Skips(Src(i, x, y)[1], Src(i, x, y)[2])}

C7_Normalize ==
    [][pc = "normalizeBlend" =>
        /\ acc' = acc
        /\ DOMAIN compImage' = Rows
        /\ \A y \in Rows :
            /\ DOMAIN compImage'[y] = Cols
            /\ \A x \in Cols :
                /\ compImage'[y][x].alpha = U8
                /\ acc[y][x].w = 0 => compImage'[y][x].col = 0
                /\ acc[y][x].w = blendWidth =>
                    compImage'[y][x].col =
                        acc[y][x].col \div (SubPix * SubPix * blendWidth)]_vars

C7_Witness ==
    /\ pc = "getDriftParams"
    /\ \E y \in Rows, x \in Cols : acc[y][x].w = 0 /\ compImage[y][x].col = 0
    /\ \E y \in Rows, x \in Cols :
        /\ acc[y][x].w = blendWidth
        /\ compImage[y][x].col > 0 /\ compImage[y][x].col < U8

\* the skip test as the claim states it
OutOfRange(srcX, srcY) ==
    \/ srcX < 0
    \/ srcX >= (ImgW - 1) * SubPix
    \/ srcY < 0
    \/ srcY >= (ImgH - 1) * SubPix

\* C9: a call of accumulateBlend raises nothing; it leaves unchanged every
\* cell whose source coordinate is out of range, and for every other cell
\* the four neighbours the sampler reads are in-bounds indices of the image.
C9_SkipOrInBounds ==
    [][pc = "accumulateBlend" =>
        /\ exc' = None
        /\ \A y \in Rows, x \in Cols :
            LET in == Src(count + 1, x, y)
            IN  IF OutOfRange(in[1], in[2])
                THEN acc'[y][x] = acc[y][x]
                ELSE \A n \in Neighbours(in[1], in[2]) :
                        n[1] \in 0..(ImgW - 1) /\ n[2] \in 0..(ImgH - 1)]_vars

\* the last call sampled a cell at a fractional source coordinate and skipped
\* a cell whose source coordinate lies in the margin of the last row or column
C9_Witness ==
    /\ pc \in {"accumulateBlend", "normalizeBlend"} /\ count >= 1
    /\ \E y \in Rows, x \in Cols :
        LET in == Src(count, x, y)
        IN  /\ ~OutOfRange(in[1], in[2])
            /\ in[1] % SubPix # 0 \/ in[2] % SubPix # 0
            /\ acc[y][x].w > 0
    /\ \E y \in Rows, x \in Cols :
        LET in == Src(count, x, y)
        IN  /\ in[1] >= 0 /\ in[1] < ImgW * SubPix
            /\ in[2] >= 0 /\ in[2] < ImgH * SubPix
            /\ OutOfRange(in[1], in[2])

\* the buffer's invariant after k calls
BufferOk(a, k, b) ==
    \A y \in Rows, x \in Cols :
        /\ 0 <= a[y][x].col
        /\ a[y][x].col <= SubPix * SubPix * U8 * a[y][x].w
        /\ a[y][x].w <= k * b
        /\ NormalizeValue(a[y][x].col, a[y][x].w, b) \in 0..U8

\* C10: from the zero-filled buffer on, after k calls of accumulateBlend every
\* pixel has 0 <= colour sum <= weight sum <= k, no call decreases either
\* sum, and the normalized colour times 255 stays within 0..255.
C10_BufferInvariant ==
    [][/\ pc = "pasteImages" /\ pc' # "raised" => BufferOk(acc', 0, blendWidth)
       /\ pc = "accumulateBlend" =>
            /\ BufferOk(acc', count', blendWidth)
            /\ \A y \in Rows, x \in Cols :
                /\ acc'[y][x].col >= acc[y][x].col
                /\ acc'[y][x].w >= acc[y][x].w
       /\ pc = "normalizeBlend" =>
            \A y \in Rows, x \in Cols : compImage'[y][x].col \in 0..U8]_vars

\* two calls have overlapped at full weight on a cell with colour
C10_Witness ==
    /\ pc = "normalizeBlend" /\ count = 2
    /\ \E y \in Rows, x \in Cols :
        /\ acc[y][x].w = 2 * blendWidth
        /\ acc[y][x].col > 0
        /\ acc[y][x].col < SubPix * SubPix * U8 * acc[y][x].w

====
